---- MODULE Spec2Model ----
(***************************************************************************)
(* tstats (src/main.go): a Bubble Tea program that checks two cache files, *)
(* and on a miss fetches the public IP, the geolocation of that IP and the *)
(* weather at that location, then shows "city - temperature".              *)
(*                                                                         *)
(* The model follows the program's structure: commands (tea.Cmd) run and   *)
(* post a message; model.Update handles one message at a time and returns  *)
(* the next commands.  The two cache files outlive a run, so a behaviour   *)
(* is a sequence of invocations of the command.                            *)
(***************************************************************************)
EXTENDS Integers, Sequences, FiniteSets, TLC

VARIABLES
    m,            \* the Bubble Tea model (type model, main.go:63-75)
    cmds,         \* commands handed to the runtime and not yet finished
    msgs,         \* messages posted by commands and not yet handled by Update
    geoFile,      \* $TMPDIR/geoinfo_cache.json
    weatherFile,  \* $TMPDIR/weather_cache.json
    phase,        \* "idle" (never run), "running", "exited"
    exitCode,     \* exit code of the last invocation, -1 while there is none
    reqs,         \* HTTP requests issued by the current invocation, in order
    printed,      \* lines printed with tea.Printf by the current invocation
    start,        \* what the two cache files held when the invocation began
    last,         \* the command that finished last: its inputs and its message
    fetched,      \* what the stages of the current invocation received
    prev,         \* what the invocation before the current one ended with
    interrupted   \* a quit key made the current invocation quit

vars == <<m, cmds, msgs, geoFile, weatherFile, phase, exitCode, reqs, printed,
          start, last, fetched, prev, interrupted>>

----------------------------------------------------------------------------
(* Bounds of the model. *)

\* Cities the geolocation service may answer with are 1..NumCities.
NumCities == 2
\* The forecast service answers with one of NumTemps temperatures.
NumTemps == 2

(* Program constants. *)

\* "they're considered invalid after 30 minutes" (README.md:58), in minutes.
TTL == 30
\* len(steps) in newModel.
NumSteps == 4
\* http.StatusOK
StatusOK == 200

----------------------------------------------------------------------------
(* Values.  A pointer is <<>> (nil) or <<x>>.  The empty string city, and  *)
(* the zero value of a number, is 0.  Coordinates are in 1e-4 degrees and   *)
(* temperatures in 1e-2 degrees Celsius.                                    *)

Nil == <<>>
Ptr(x) == <<x>>
Deref(p) == p[1]

Cities == 1..NumCities
CityLat(c) == 100000 * c
CityLon(c) == 200000 * c

\* Temperatures the forecast service reports: 21.34, -0.56, ...
TempOf(k) == IF k % 2 = 1 THEN 2134 + 100 * (k \div 2) ELSE -56 - 100 * (k \div 2)
Temps == {TempOf(k) : k \in 1..NumTemps}

\* type GeoInfo (the fields the program reads)
GeoInfo(status, city, lat, lon) ==
    [Status |-> status, City |-> city, Lat |-> lat, Lon |-> lon]
ZeroGeoInfo == GeoInfo("", 0, 0, 0)

\* type WeatherResponse (the fields the program reads)
WeatherResponse(lat, lon, temp) ==
    [Latitude |-> lat, Longitude |-> lon, Temperature2m |-> temp]
ZeroWeatherResponse == WeatherResponse(0, 0, 0)

(* Raw bytes: a JSON document of the geolocation service, one of the       *)
(* forecast service, bytes that are no JSON document ("garbage"), a         *)
(* document cut short by a failed write ("partial"), or nothing ("none").   *)
Bytes(doc, status, city, lat, lon, temp) ==
    [doc |-> doc, status |-> status, city |-> city, lat |-> lat, lon |-> lon,
     temp |-> temp]
NoBytes == Bytes("none", "", 0, 0, 0, 0)
Garbage == Bytes("garbage", "", 0, 0, 0, 0)
GeoSuccessBody(c) == Bytes("geo", "success", c, CityLat(c), CityLon(c), 0)
GeoFailBody == Bytes("geo", "fail", 0, 0, 0, 0)
WeatherBody(lat, lon, temp) == Bytes("weather", "", 0, lat, lon, temp)
Truncated(b) == Bytes("partial", "", 0, 0, 0, 0)

GeoBodies == {GeoSuccessBody(c) : c \in Cities} \cup {GeoFailBody, Garbage}

\* json.Unmarshal(data, &geoInfo): an error, or the struct filled from the
\* keys of the document that GeoInfo declares (a forecast document has none).
UnmarshalGeoInfo(b) ==
    CASE b.doc = "geo" ->
            [err |-> FALSE, v |-> GeoInfo(b.status, b.city, b.lat, b.lon)]
      [] b.doc = "weather" -> [err |-> FALSE, v |-> ZeroGeoInfo]
      [] OTHER -> [err |-> TRUE, v |-> ZeroGeoInfo]

\* json.Unmarshal(data, &weatherResp): likewise for WeatherResponse.
UnmarshalWeatherResponse(b) ==
    CASE b.doc = "weather" ->
            [err |-> FALSE, v |-> WeatherResponse(b.lat, b.lon, b.temp)]
      [] b.doc = "geo" -> [err |-> FALSE, v |-> ZeroWeatherResponse]
      [] OTHER -> [err |-> TRUE, v |-> ZeroWeatherResponse]

----------------------------------------------------------------------------
(* The file system, as far as the two cache files go. *)

File(state, data, age) == [state |-> state, data |-> data, age |-> age]
Absent == File("absent", NoBytes, 0)
Unreadable == File("unreadable", NoBytes, 0)
Present(data) == File("present", data, 0)

\* Ages are counted up to one minute past the TTL.
MaxAge == TTL + 1
Older(f, d) ==
    IF f.state = "absent" THEN f
    ELSE [f EXCEPT !.age = IF f.age + d > MaxAge THEN MaxAge ELSE f.age + d]

\* os.ReadFile
ReadFile(f) ==
    IF f.state = "present" THEN [err |-> FALSE, data |-> f.data]
    ELSE [err |-> TRUE, data |-> NoBytes]

\* os.WriteFile(name, data, 0644): opens with O_CREATE|O_TRUNC and writes.
\* It succeeds, fails before the file is touched, or fails after truncating.
WriteOutcomes == {"ok", "open failed", "write failed"}
WriteFile(f, data, outcome) ==
    CASE outcome = "ok" -> [err |-> FALSE, file |-> Present(data)]
      [] outcome = "open failed" -> [err |-> TRUE, file |-> f]
      [] OTHER -> [err |-> TRUE, file |-> Present(Truncated(data))]

\* os.Remove: the file is gone afterwards (its error is ignored by the caller).
Remove(f) == Absent

----------------------------------------------------------------------------
(* HTTP.  A response is what http.Get and io.ReadAll give the caller: a    *)
(* transport error, or a status code and then a body or a read error.      *)

Response(fail, status, body) == [fail |-> fail, status |-> status, body |-> body]
TransportError == Response("transport", 0, NoBytes)
ReadError(status) == Response("read", status, NoBytes)

\* Bodies of https://api.ipify.org are text, an address or nothing; here a
\* body of text is Bytes with the text in "status".
Text(t) == Bytes("text", t, 0, 0, 0, 0)
IPResponses ==
    {TransportError, ReadError(StatusOK),
     Response("", StatusOK, Text("203.0.113.5")),
     Response("", StatusOK, Text("")),
     Response("", 500, Text(""))}

\* http://ip-api.com/json/{ip}
GeoResponses ==
    {TransportError, ReadError(StatusOK)}
    \cup {Response("", StatusOK, b) : b \in GeoBodies}

\* https://api.open-meteo.com/v1/forecast?latitude=..&longitude=..: a
\* forecast document repeats the coordinates it was asked for.
WeatherResponses(lat, lon) ==
    {TransportError, ReadError(StatusOK), Response("", 500, Garbage),
     Response("", StatusOK, Garbage)}
    \cup {Response("", StatusOK, WeatherBody(lat, lon, t)) : t \in Temps}

\* A request as the services see it.
Request(kind, ip, lat, lon) == [kind |-> kind, ip |-> ip, lat |-> lat, lon |-> lon]

\* The three requests: http.Get("https://api.ipify.org") (main.go:338), the
\* geolocation URL for ip (main.go:351) and the forecast URL for the
\* coordinates of geoInfo (main.go:376).
IPRequest == Request("ip", "", 0, 0)
GeoRequest(ip) == Request("geo", ip, 0, 0)
\* The forecast URL with latitude and longitude swapped.
WeatherRequest_Swapped(geoInfo) == Request("weather", "", geoInfo.Lon, geoInfo.Lat)
WeatherRequest(geoInfo) == Request("weather", "", geoInfo.Lat, geoInfo.Lon)

\* error values; NoErr is Go's nil error
NoErr == "nil"

\* getPublicIP (main.go:337-348)
getPublicIP(resp) ==
    CASE resp.fail = "transport" -> [ip |-> "", err |-> "ipify: request failed"]
      [] resp.fail = "read" -> [ip |-> "", err |-> "ipify: reading body failed"]
      [] OTHER -> [ip |-> resp.body.status, err |-> NoErr]

\* getGeoInfo with the write of the cache file left out.
getGeoInfo_NoWrite(ip, resp, file, outcome) ==
    CASE resp.fail = "transport" ->
            [geoInfo |-> Nil, err |-> "ip-api: request failed", file |-> file]
      [] resp.fail = "read" ->
            [geoInfo |-> Nil, err |-> "error reading API response body",
             file |-> file]
      [] OTHER ->
            LET u == UnmarshalGeoInfo(resp.body)
            IN  CASE u.err ->
                        [geoInfo |-> Nil, err |-> "ip-api: invalid JSON",
                         file |-> file]
                  [] u.v.Status # "success" ->
                        [geoInfo |-> Nil,
                         err |-> "geolocation API failed with status",
                         file |-> file]
                  [] OTHER ->
                        [geoInfo |-> Ptr(u.v), err |-> NoErr, file |-> file]

\* getGeoInfo (main.go:350-373): the body is written to the cache file before
\* it is decoded and before its status is looked at.
getGeoInfo(ip, resp, file, outcome) ==
    CASE resp.fail = "transport" ->
            [geoInfo |-> Nil, err |-> "ip-api: request failed", file |-> file]
      [] resp.fail = "read" ->
            [geoInfo |-> Nil, err |-> "error reading API response body",
             file |-> file]
      [] OTHER ->
            LET w == WriteFile(file, resp.body, outcome)
                u == UnmarshalGeoInfo(resp.body)
            IN  CASE u.err ->
                        [geoInfo |-> Nil, err |-> "ip-api: invalid JSON",
                         file |-> w.file]
                  [] u.v.Status # "success" ->
                        [geoInfo |-> Nil,
                         err |-> "geolocation API failed with status",
                         file |-> w.file]
                  [] OTHER ->
                        [geoInfo |-> Ptr(u.v), err |-> NoErr, file |-> w.file]

\* getWeatherInfo returning the error of a failed cache write.
getWeatherInfo_WriteFatal(geoInfo, resp, file, outcome) ==
    CASE resp.fail = "transport" ->
            [weatherData |-> Nil, err |-> "open-meteo: request failed",
             file |-> file]
      [] resp.status # StatusOK ->
            [weatherData |-> Nil,
             err |-> "weather API returned an unexpected status", file |-> file]
      [] resp.fail = "read" ->
            [weatherData |-> Nil, err |-> "error reading API response body",
             file |-> file]
      [] OTHER ->
            LET w == WriteFile(file, resp.body, outcome)
                u == UnmarshalWeatherResponse(resp.body)
            IN  CASE w.err ->
                        [weatherData |-> Nil,
                         err |-> "failed to write weather cache", file |-> w.file]
                  [] u.err ->
                        [weatherData |-> Nil, err |-> "error decoding weather data",
                         file |-> w.file]
                  [] OTHER ->
                        [weatherData |-> Ptr(u.v), err |-> NoErr, file |-> w.file]

\* getWeatherInfo returning the record in the cache file when it holds one.
getWeatherInfo_ReadsCache(geoInfo, resp, file, outcome) ==
    CASE resp.fail = "transport" ->
            [weatherData |-> Nil, err |-> "open-meteo: request failed",
             file |-> file]
      [] resp.status # StatusOK ->
            [weatherData |-> Nil,
             err |-> "weather API returned an unexpected status", file |-> file]
      [] resp.fail = "read" ->
            [weatherData |-> Nil, err |-> "error reading API response body",
             file |-> file]
      [] OTHER ->
            LET w == WriteFile(file, resp.body, outcome)
                u == UnmarshalWeatherResponse(
                        IF file.state = "present"
                           /\ ~UnmarshalWeatherResponse(file.data).err
                        THEN file.data ELSE resp.body)
            IN  IF u.err
                THEN [weatherData |-> Nil, err |-> "error decoding weather data",
                      file |-> w.file]
                ELSE [weatherData |-> Ptr(u.v), err |-> NoErr, file |-> w.file]

\* getWeatherInfo (main.go:375-398)
getWeatherInfo(geoInfo, resp, file, outcome) ==
    CASE resp.fail = "transport" ->
            [weatherData |-> Nil, err |-> "open-meteo: request failed",
             file |-> file]
      [] resp.status # StatusOK ->
            [weatherData |-> Nil,
             err |-> "weather API returned an unexpected status", file |-> file]
      [] resp.fail = "read" ->
            [weatherData |-> Nil, err |-> "error reading API response body",
             file |-> file]
      [] OTHER ->
            LET w == WriteFile(file, resp.body, outcome)
                u == UnmarshalWeatherResponse(resp.body)
            IN  IF u.err
                THEN [weatherData |-> Nil, err |-> "error decoding weather data",
                      file |-> w.file]
                ELSE [weatherData |-> Ptr(u.v), err |-> NoErr, file |-> w.file]

----------------------------------------------------------------------------
(* Messages and commands. *)

Msg(type, hasCache, geoInfo, weatherData, ip, err, key, width) ==
    [type |-> type, hasCache |-> hasCache, geoInfo |-> geoInfo,
     weatherData |-> weatherData, ip |-> ip, err |-> err, key |-> key,
     width |-> width]
cacheCheckResultMsg(hasCache, geoInfo, weatherData) ==
    Msg("cacheCheckResultMsg", hasCache, geoInfo, weatherData, "", NoErr, "", 0)
ipFetchedMsg(ip) == Msg("ipFetchedMsg", FALSE, Nil, Nil, ip, NoErr, "", 0)
geoInfoFetchedMsg(geoInfo) ==
    Msg("geoInfoFetchedMsg", FALSE, geoInfo, Nil, "", NoErr, "", 0)
\* weatherFetchedMsg carrying a nil pointer.
weatherFetchedMsg_Nil(weatherData) ==
    Msg("weatherFetchedMsg", FALSE, Nil, Nil, "", NoErr, "", 0)
weatherFetchedMsg(weatherData) ==
    Msg("weatherFetchedMsg", FALSE, Nil, weatherData, "", NoErr, "", 0)
errorMsg(err) == Msg("errorMsg", FALSE, Nil, Nil, "", err, "", 0)
QuitMsg == Msg("QuitMsg", FALSE, Nil, Nil, "", NoErr, "", 0)
KeyMsg(key) == Msg("KeyMsg", FALSE, Nil, Nil, "", NoErr, key, 0)
WindowSizeMsg(width) == Msg("WindowSizeMsg", FALSE, Nil, Nil, "", NoErr, "", width)
SpinnerTickMsg == Msg("spinner.TickMsg", FALSE, Nil, Nil, "", NoErr, "", 0)
ProgressFrameMsg == Msg("progress.FrameMsg", FALSE, Nil, Nil, "", NoErr, "", 0)

Cmd(name, force, ip, geoInfo) ==
    [name |-> name, force |-> force, ip |-> ip, geoInfo |-> geoInfo]
checkCacheCmdOf(force) == Cmd("checkCacheCmd", force, "", Nil)
fetchPublicIPCmdOf == Cmd("fetchPublicIPCmd", FALSE, "", Nil)
\* fetchGeoInfoCmd started without the address.
fetchGeoInfoCmdOf_NoIP(ip) == Cmd("fetchGeoInfoCmd", FALSE, "", Nil)
fetchGeoInfoCmdOf(ip) == Cmd("fetchGeoInfoCmd", FALSE, ip, Nil)
fetchWeatherInfoCmdOf(geoInfo) == Cmd("fetchWeatherInfoCmd", FALSE, "", geoInfo)
\* tea.Quit, and the 80 ms tea.Tick whose function returns tea.Quit()
QuitCmd == Cmd("tea.Quit", FALSE, "", Nil)
QuitTickCmd == Cmd("tea.Tick", FALSE, "", Nil)

\* checkCacheCmd with the removal of the weather file forgotten.
checkCacheCmd_KeepsWeather(forceRefresh, geo, weather) ==
    IF forceRefresh
    THEN [msg |-> cacheCheckResultMsg(FALSE, Nil, Nil),
          geo |-> Remove(geo), weather |-> weather]
    ELSE LET miss == [msg |-> cacheCheckResultMsg(FALSE, Nil, Nil),
                      geo |-> geo, weather |-> weather]
             gi == UnmarshalGeoInfo(ReadFile(geo).data)
             wr == UnmarshalWeatherResponse(ReadFile(weather).data)
         IN  IF ReadFile(geo).err \/ gi.err \/ gi.v.Status # "success"
                \/ ReadFile(weather).err \/ wr.err
             THEN miss
             ELSE [msg |-> cacheCheckResultMsg(TRUE, Ptr(gi.v), Ptr(wr.v)),
                   geo |-> geo, weather |-> weather]

\* checkCacheCmd handing out the weather record before it is decoded.
checkCacheCmd_ZeroWeather(forceRefresh, geo, weather) ==
    IF forceRefresh
    THEN [msg |-> cacheCheckResultMsg(FALSE, Nil, Nil),
          geo |-> Remove(geo), weather |-> Remove(weather)]
    ELSE LET miss == [msg |-> cacheCheckResultMsg(FALSE, Nil, Nil),
                      geo |-> geo, weather |-> weather]
             gi == UnmarshalGeoInfo(ReadFile(geo).data)
             wr == UnmarshalWeatherResponse(ReadFile(weather).data)
         IN  IF ReadFile(geo).err \/ gi.err \/ gi.v.Status # "success"
                \/ ReadFile(weather).err \/ wr.err
             THEN miss
             ELSE [msg |-> cacheCheckResultMsg(TRUE, Ptr(gi.v),
                                               Ptr(ZeroWeatherResponse)),
                   geo |-> geo, weather |-> weather]

\* checkCacheCmd reporting a file it cannot read or decode as an error.
checkCacheCmd_ReadErrorFatal(forceRefresh, geo, weather) ==
    IF forceRefresh
    THEN [msg |-> cacheCheckResultMsg(FALSE, Nil, Nil),
          geo |-> Remove(geo), weather |-> Remove(weather)]
    ELSE LET gi == UnmarshalGeoInfo(ReadFile(geo).data)
             wr == UnmarshalWeatherResponse(ReadFile(weather).data)
         IN  CASE ReadFile(geo).err \/ gi.err \/ ReadFile(weather).err \/ wr.err ->
                    [msg |-> errorMsg("cache unreadable"),
                     geo |-> geo, weather |-> weather]
               [] gi.v.Status # "success" ->
                    [msg |-> cacheCheckResultMsg(FALSE, Nil, Nil),
                     geo |-> geo, weather |-> weather]
               [] OTHER ->
                    [msg |-> cacheCheckResultMsg(TRUE, Ptr(gi.v), Ptr(wr.v)),
                     geo |-> geo, weather |-> weather]

\* checkCacheCmd with the test of the status left out.
checkCacheCmd_NoStatusCheck(forceRefresh, geo, weather) ==
    IF forceRefresh
    THEN [msg |-> cacheCheckResultMsg(FALSE, Nil, Nil),
          geo |-> Remove(geo), weather |-> Remove(weather)]
    ELSE LET miss == [msg |-> cacheCheckResultMsg(FALSE, Nil, Nil),
                      geo |-> geo, weather |-> weather]
             gi == UnmarshalGeoInfo(ReadFile(geo).data)
             wr == UnmarshalWeatherResponse(ReadFile(weather).data)
         IN  IF ReadFile(geo).err \/ gi.err \/ ReadFile(weather).err \/ wr.err
             THEN miss
             ELSE [msg |-> cacheCheckResultMsg(TRUE, Ptr(gi.v), Ptr(wr.v)),
                   geo |-> geo, weather |-> weather]

\* checkCacheCmd removing a geolocation file it cannot use.
checkCacheCmd_RemovesInvalid(forceRefresh, geo, weather) ==
    IF forceRefresh
    THEN [msg |-> cacheCheckResultMsg(FALSE, Nil, Nil),
          geo |-> Remove(geo), weather |-> Remove(weather)]
    ELSE LET gi == UnmarshalGeoInfo(ReadFile(geo).data)
             wr == UnmarshalWeatherResponse(ReadFile(weather).data)
         IN  CASE ReadFile(geo).err \/ gi.err \/ gi.v.Status # "success" ->
                    [msg |-> cacheCheckResultMsg(FALSE, Nil, Nil),
                     geo |-> Remove(geo), weather |-> weather]
               [] ReadFile(weather).err \/ wr.err ->
                    [msg |-> cacheCheckResultMsg(FALSE, Nil, Nil),
                     geo |-> geo, weather |-> weather]
               [] OTHER ->
                    [msg |-> cacheCheckResultMsg(TRUE, Ptr(gi.v), Ptr(wr.v)),
                     geo |-> geo, weather |-> weather]

\* The function checkCacheCmd returns (main.go:268-304): the message it
\* yields and the two files as it leaves them.
checkCacheCmd(forceRefresh, geo, weather) ==
    IF forceRefresh
    THEN [msg |-> cacheCheckResultMsg(FALSE, Nil, Nil),
          geo |-> Remove(geo), weather |-> Remove(weather)]
    ELSE LET miss == [msg |-> cacheCheckResultMsg(FALSE, Nil, Nil),
                      geo |-> geo, weather |-> weather]
             g == ReadFile(geo)
             gi == UnmarshalGeoInfo(g.data)
             w == ReadFile(weather)
             wr == UnmarshalWeatherResponse(w.data)
         IN  CASE g.err -> miss
               [] gi.err \/ gi.v.Status # "success" -> miss
               [] w.err -> miss
               [] wr.err -> miss
               [] OTHER ->
                    [msg |-> cacheCheckResultMsg(TRUE, Ptr(gi.v), Ptr(wr.v)),
                     geo |-> geo, weather |-> weather]

----------------------------------------------------------------------------
(* The Bubble Tea model. *)

\* m.progress is the percentage asked for; m.spinner and the animation of the
\* bar are state of the two widgets, which the model leaves out.
\* m.progress.SetPercent(float64(m.index) / float64(len(m.steps)))
Percent(index) == (100 * index) \div NumSteps

\* newModel with the step index starting at 1.
newModel_IndexOne(forceRefresh) ==
    [index |-> 1, progress |-> 0, width |-> 0,
     height |-> 0, done |-> FALSE, err |-> NoErr, geoInfo |-> Nil,
     weatherData |-> Nil, forceRefresh |-> forceRefresh]

\* newModel (main.go:114-136)
newModel(forceRefresh) ==
    [index |-> 0, progress |-> 0, width |-> 0,
     height |-> 0, done |-> FALSE, err |-> NoErr, geoInfo |-> Nil,
     weatherData |-> Nil, forceRefresh |-> forceRefresh]

\* fmt.Sprintf("%.1f", t): t is in hundredths, the result in tenths, rounded
\* to nearest.
FormatTemp(t) == IF t >= 0 THEN (t + 5) \div 10 ELSE -((5 - t) \div 10)

Screen(kind, err, city, temp, step) ==
    [kind |-> kind, err |-> err, city |-> city, temp |-> temp, step |-> step]

\* model.View (main.go:235-263): the error, the result, or the progress line.
\* A nil dereference or an index out of range panics.
View(mm) ==
    CASE mm.err # NoErr -> Screen("error", mm.err, 0, 0, 0)
      [] mm.done ->
            IF mm.geoInfo = Nil \/ mm.weatherData = Nil
            THEN Screen("panic", NoErr, 0, 0, 0)
            ELSE Screen("result", NoErr, Deref(mm.geoInfo).City,
                        FormatTemp(Deref(mm.weatherData).Temperature2m), 0)
      [] OTHER ->
            IF mm.index >= NumSteps
            THEN Screen("panic", NoErr, 0, 0, 0)
            ELSE Screen("progress", NoErr, 0, 0, mm.index + 1)

\* A line printed with tea.Printf; city is the %s of the geolocation line.
Line(label, city) == [label |-> label, city |-> city]

Last(name, resp, outcome, msg) ==
    [name |-> name, resp |-> resp, outcome |-> outcome, msg |-> msg]
NoLast == Last("", TransportError, "ok", QuitMsg)

Running == phase = "running"

\* The functions fetchPublicIPCmd, fetchGeoInfoCmd and fetchWeatherInfoCmd
\* return (main.go:307-335): an error becomes an errorMsg.  The first of the
\* four definitions is fetchPublicIPCmd with the error dropped.
fetchPublicIPCmd_IgnoresError(resp) == ipFetchedMsg(getPublicIP(resp).ip)

fetchPublicIPCmd(resp) ==
    LET r == getPublicIP(resp)
    IN  IF r.err # NoErr THEN errorMsg(r.err) ELSE ipFetchedMsg(r.ip)

fetchGeoInfoCmd(ip, resp, file, outcome) ==
    LET r == getGeoInfo(ip, resp, file, outcome)
    IN  [msg |-> IF r.err # NoErr THEN errorMsg(r.err)
                 ELSE geoInfoFetchedMsg(r.geoInfo),
         file |-> r.file]

fetchWeatherInfoCmd(geoInfo, resp, file, outcome) ==
    LET r == getWeatherInfo(geoInfo, resp, file, outcome)
    IN  [msg |-> IF r.err # NoErr THEN errorMsg(r.err)
                 ELSE weatherFetchedMsg(r.weatherData),
         file |-> r.file]

Result(mm, cs, lines) == [m |-> mm, cmds |-> cs, printed |-> lines]

\* model.Update (main.go:142-233): the new model, the commands returned and
\* the lines printed.
Update(mm, msg) ==
    CASE msg.type = "WindowSizeMsg" ->
            Result([mm EXCEPT !.width = msg.width, !.height = msg.width], {}, <<>>)
      [] msg.type = "KeyMsg" ->
            IF msg.key \in {"ctrl+c", "esc", "q"}
            THEN Result(mm, {QuitCmd}, <<>>)
            ELSE Result(mm, {}, <<>>)
      [] msg.type = "cacheCheckResultMsg" ->
            IF msg.hasCache
            THEN Result([mm EXCEPT !.done = TRUE, !.geoInfo = msg.geoInfo,
                                   !.weatherData = msg.weatherData],
                        {QuitTickCmd},
                        <<Line("Found valid data in cache", 0)>>)
            ELSE Result([mm EXCEPT !.index = mm.index + 1,
                                   !.progress = Percent(mm.index + 1)],
                        {fetchPublicIPCmdOf},
                        <<Line("Cache not found or invalid", 0)>>)
      [] msg.type = "ipFetchedMsg" ->
            Result([mm EXCEPT !.index = mm.index + 1,
                              !.progress = Percent(mm.index + 1)],
                   {fetchGeoInfoCmdOf(msg.ip)},
                   <<Line("Public IP fetched", 0)>>)
      [] msg.type = "geoInfoFetchedMsg" ->
            Result([mm EXCEPT !.index = mm.index + 1, !.geoInfo = msg.geoInfo,
                              !.progress = Percent(mm.index + 1)],
                   {fetchWeatherInfoCmdOf(msg.geoInfo)},
                   <<Line("Geolocation for %s fetched and cached",
                          Deref(msg.geoInfo).City)>>)
      [] msg.type = "weatherFetchedMsg" ->
            Result([mm EXCEPT !.index = mm.index + 1,
                              !.weatherData = msg.weatherData, !.done = TRUE,
                              !.progress = 100],
                   {QuitTickCmd},
                   <<Line("Weather forecast fetched and cached", 0)>>)
      [] msg.type = "errorMsg" ->
            Result([mm EXCEPT !.err = msg.err], {QuitCmd}, <<>>)
      [] msg.type \in {"progress.FrameMsg", "spinner.TickMsg"} ->
            Result(mm, {}, <<>>)
      [] OTHER -> Result(mm, {}, <<>>)

----------------------------------------------------------------------------
(* The state machine. *)

\* What a cache file holds for a reader: the record it decodes to, or Nil
\* when it cannot be read or decoded.
GeoEntry(f) ==
    IF f.state = "present" /\ ~UnmarshalGeoInfo(f.data).err
    THEN Ptr(UnmarshalGeoInfo(f.data).v) ELSE Nil
WeatherEntry(f) ==
    IF f.state = "present" /\ ~UnmarshalWeatherResponse(f.data).err
    THEN Ptr(UnmarshalWeatherResponse(f.data).v) ELSE Nil
\* A file last written more than the TTL ago.
Expired(f) == f.state # "absent" /\ f.age > TTL

Snapshot(geo, weather) ==
    [geo |-> GeoEntry(geo), weatherOK |-> WeatherEntry(weather) # Nil,
     expired |-> Expired(geo) \/ Expired(weather),
     none |-> geo.state = "absent" /\ weather.state = "absent"]

\* What the stages of an invocation received: the address the public-IP
\* stage delivered, the bodies read by getGeoInfo and getWeatherInfo and
\* how the write of each to its cache file ended ("" while there was none).
Fetched(ip, geo, geoWrite, weather, weatherWrite) ==
    [ip |-> ip, geo |-> geo, geoWrite |-> geoWrite, weather |-> weather,
     weatherWrite |-> weatherWrite]
NoneFetched == Fetched("", NoBytes, "", NoBytes, "")

\* What an invocation ended with, kept for the next one: whether it began
\* with no cache files and ended done after its three requests, whether both
\* cache writes succeeded, and if so the records it presented.  Any other
\* end is NoPrev.
Prev(fresh, wrote, geoInfo, weatherData) ==
    [fresh |-> fresh, wrote |-> wrote, geoInfo |-> geoInfo,
     weatherData |-> weatherData]
NoPrev == Prev(FALSE, FALSE, Nil, Nil)
Ended ==
    CASE ~(phase = "exited" /\ start.none /\ m.done /\ Len(reqs) = 3) -> NoPrev
      [] fetched.geoWrite = "ok" /\ fetched.weatherWrite = "ok" ->
            Prev(TRUE, TRUE, m.geoInfo, m.weatherData)
      [] OTHER -> Prev(TRUE, FALSE, Nil, Nil)

\* Cache files a run of the program, or anything else writing to the
\* temporary directory, may have left behind.
InitGeoFiles ==
    {Absent, Unreadable, Present(Garbage), Present(GeoFailBody)}
    \cup {Present(GeoSuccessBody(c)) : c \in Cities}
InitWeatherFiles ==
    {Absent, Unreadable, Present(Garbage)}
    \cup {Present(WeatherBody(CityLat(c), CityLon(c), TempOf(c))) : c \in Cities}

\* Minutes between one invocation and the next.
Delays == {0, TTL, TTL + 1}
\* Terminal widths reported, and keys pressed.
Widths == {80}
Keys == {"q", "x"}

Init ==
    /\ geoFile \in InitGeoFiles
    /\ weatherFile \in InitWeatherFiles
    /\ m = newModel(FALSE)
    /\ cmds = {}
    /\ msgs = {}
    /\ phase = "idle"
    /\ exitCode = -1
    /\ reqs = <<>>
    /\ printed = <<>>
    /\ start = Snapshot(geoFile, weatherFile)
    /\ last = NoLast
    /\ fetched = NoneFetched
    /\ prev = NoPrev
    /\ interrupted = FALSE

\* main (main.go:402-413) up to Program.Run calling model.Init (138-140):
\* the user runs tstats, with or without --clear, d minutes after the last
\* change to the files.
main(clearCache, d) ==
    /\ phase \in {"idle", "exited"}
    /\ geoFile' = Older(geoFile, d)
    /\ weatherFile' = Older(weatherFile, d)
    /\ m' = newModel(clearCache)
    /\ cmds' = {checkCacheCmdOf(clearCache)}
    /\ msgs' = {}
    /\ phase' = "running"
    /\ exitCode' = -1
    /\ reqs' = <<>>
    /\ printed' = <<>>
    /\ start' = Snapshot(geoFile', weatherFile')
    /\ last' = NoLast
    /\ fetched' = NoneFetched
    /\ prev' = Ended
    /\ interrupted' = FALSE

\* The runtime runs the command checkCacheCmd returned.
RunCheckCache ==
    /\ Running
    /\ \E c \in cmds :
        /\ c.name = "checkCacheCmd"
        /\ LET r == checkCacheCmd(c.force, geoFile, weatherFile)
           IN  /\ geoFile' = r.geo
               /\ weatherFile' = r.weather
               /\ msgs' = msgs \cup {r.msg}
               /\ last' = Last(c.name, TransportError, "ok", r.msg)
        /\ cmds' = cmds \ {c}
    /\ UNCHANGED <<m, phase, exitCode, reqs, printed, start, fetched, prev,
                   interrupted>>

RunFetchPublicIP ==
    /\ Running
    /\ \E c \in cmds, resp \in IPResponses :
        /\ c.name = "fetchPublicIPCmd"
        /\ LET msg == fetchPublicIPCmd(resp)
           IN  /\ msgs' = msgs \cup {msg}
               /\ last' = Last(c.name, resp, "ok", msg)
               /\ fetched' = [fetched EXCEPT !.ip = msg.ip]
        /\ cmds' = cmds \ {c}
    /\ reqs' = Append(reqs, IPRequest)
    /\ UNCHANGED <<m, geoFile, weatherFile, phase, exitCode, printed, start,
                   prev, interrupted>>

RunFetchGeoInfo ==
    /\ Running
    /\ \E c \in cmds, resp \in GeoResponses :
        /\ c.name = "fetchGeoInfoCmd"
        /\ \E outcome \in IF resp.fail = "" THEN WriteOutcomes ELSE {"ok"} :
            LET r == fetchGeoInfoCmd(c.ip, resp, geoFile, outcome)
            IN  /\ geoFile' = r.file
                /\ msgs' = msgs \cup {r.msg}
                /\ last' = Last(c.name, resp, outcome, r.msg)
                /\ fetched' = IF resp.fail = ""
                              THEN [fetched EXCEPT !.geo = resp.body,
                                                   !.geoWrite = outcome]
                              ELSE fetched
        /\ cmds' = cmds \ {c}
        /\ reqs' = Append(reqs, GeoRequest(c.ip))
    /\ UNCHANGED <<m, weatherFile, phase, exitCode, printed, start, prev,
                   interrupted>>

RunFetchWeatherInfo ==
    /\ Running
    /\ \E c \in cmds :
        /\ c.name = "fetchWeatherInfoCmd"
        /\ LET req == WeatherRequest(Deref(c.geoInfo))
           IN  /\ \E resp \in WeatherResponses(req.lat, req.lon) :
                    \E outcome \in IF resp.fail = "" /\ resp.status = StatusOK
                                   THEN WriteOutcomes ELSE {"ok"} :
                        LET r == fetchWeatherInfoCmd(c.geoInfo, resp, weatherFile,
                                                     outcome)
                        IN  /\ weatherFile' = r.file
                            /\ msgs' = msgs \cup {r.msg}
                            /\ last' = Last(c.name, resp, outcome, r.msg)
                            /\ fetched' =
                                IF resp.fail = "" /\ resp.status = StatusOK
                                THEN [fetched EXCEPT !.weather = resp.body,
                                                     !.weatherWrite = outcome]
                                ELSE fetched
               /\ reqs' = Append(reqs, req)
        /\ cmds' = cmds \ {c}
    /\ UNCHANGED <<m, geoFile, phase, exitCode, printed, start, prev,
                   interrupted>>

\* Handle with the tea.Printf commands dropped.
Handle_DropsPrintf(msg, pending) ==
    LET r == Update(m, msg)
    IN  /\ m' = r.m
        /\ cmds' = cmds \cup (r.cmds \ {QuitCmd, QuitTickCmd})
        /\ msgs' = pending \cup (IF r.cmds \cap {QuitCmd, QuitTickCmd} # {}
                                 THEN {QuitMsg} ELSE {})
        /\ printed' = printed

\* Handle with the 80 ms tick never posting its QuitMsg.
Handle_TickNeverQuits(msg, pending) ==
    LET r == Update(m, msg)
    IN  /\ m' = r.m
        /\ cmds' = cmds \cup (r.cmds \ {QuitCmd, QuitTickCmd})
        /\ msgs' = pending \cup (IF QuitCmd \in r.cmds THEN {QuitMsg} ELSE {})
        /\ printed' = printed \o r.printed

\* The event loop hands msg to model.Update and starts the commands returned.
\* tea.Quit, and the 80 ms tick that returns it, post a QuitMsg: the messages
\* still pending may be handled before it or never.
Handle(msg, pending) ==
    LET r == Update(m, msg)
    IN  /\ m' = r.m
        /\ cmds' = cmds \cup (r.cmds \ {QuitCmd, QuitTickCmd})
        /\ msgs' = pending \cup (IF r.cmds \cap {QuitCmd, QuitTickCmd} # {}
                                 THEN {QuitMsg} ELSE {})
        /\ printed' = printed \o r.printed

\* A message posted by a command reaches Update.
Deliver ==
    /\ Running
    /\ \E msg \in msgs :
        /\ msg.type # "QuitMsg"
        /\ Handle(msg, msgs \ {msg})
    /\ UNCHANGED <<geoFile, weatherFile, phase, exitCode, reqs, start, last,
                   fetched, prev, interrupted>>

\* The terminal reports its size.
WindowSize ==
    /\ Running
    /\ \E w \in Widths : Handle(WindowSizeMsg(w), msgs)
    /\ UNCHANGED <<geoFile, weatherFile, phase, exitCode, reqs, start, last,
                   fetched, prev, interrupted>>

\* The user presses a key.
Key ==
    /\ Running
    /\ \E k \in Keys :
        /\ Handle(KeyMsg(k), msgs)
        /\ interrupted' = \/ interrupted
                          \/ /\ QuitCmd \in Update(m, KeyMsg(k)).cmds
                             /\ QuitMsg \notin msgs
    /\ UNCHANGED <<geoFile, weatherFile, phase, exitCode, reqs, start, last,
                   fetched, prev>>

\* The spinner's tick, started by model.Init and renewed by each tick.
SpinnerTick ==
    /\ Running
    /\ Handle(SpinnerTickMsg, msgs)
    /\ UNCHANGED <<geoFile, weatherFile, phase, exitCode, reqs, start, last,
                   fetched, prev, interrupted>>

\* A frame of the progress bar's animation, once SetPercent has started it.
ProgressFrame ==
    /\ Running
    /\ m.progress > 0
    /\ Handle(ProgressFrameMsg, msgs)
    /\ UNCHANGED <<geoFile, weatherFile, phase, exitCode, reqs, start, last,
                   fetched, prev, interrupted>>

\* The event loop receives the QuitMsg: Program.Run returns a nil error and
\* main returns (main.go:413-417), so the process exits with code 0.  The
\* goroutine of a command still running ends with the process; here it has
\* not reached its cache write.
Quit ==
    /\ Running
    /\ QuitMsg \in msgs
    /\ phase' = "exited"
    /\ exitCode' = 0
    /\ cmds' = {}
    /\ msgs' = {}
    /\ UNCHANGED <<m, geoFile, weatherFile, reqs, printed, start, last,
                   fetched, prev, interrupted>>

\* Quit while the goroutine of fetchGeoInfoCmd or fetchWeatherInfoCmd is
\* inside os.WriteFile (main.go:362, 390), after the open with O_TRUNC and
\* before the write has finished: the process ends and the file stays cut
\* short.  The command never returns, so it yields no message.
QuitInWrite ==
    /\ Running
    /\ QuitMsg \in msgs
    /\ \E c \in cmds :
        \/ /\ c.name = "fetchGeoInfoCmd"
           /\ \E resp \in GeoResponses :
                /\ resp.fail = ""
                /\ geoFile' = WriteFile(geoFile, resp.body, "write failed").file
           /\ reqs' = Append(reqs, GeoRequest(c.ip))
           /\ UNCHANGED weatherFile
        \/ /\ c.name = "fetchWeatherInfoCmd"
           /\ LET req == WeatherRequest(Deref(c.geoInfo))
              IN  /\ \E resp \in WeatherResponses(req.lat, req.lon) :
                        /\ resp.fail = "" /\ resp.status = StatusOK
                        /\ weatherFile' =
                            WriteFile(weatherFile, resp.body, "write failed").file
                  /\ reqs' = Append(reqs, req)
           /\ UNCHANGED geoFile
    /\ phase' = "exited"
    /\ exitCode' = 0
    /\ cmds' = {}
    /\ msgs' = {}
    /\ UNCHANGED <<m, printed, start, last, fetched, prev, interrupted>>

\* main when Program.Run cannot set the terminal up: it returns an error
\* before model.Init is called, main prints it and calls os.Exit(1)
\* (main.go:413-416).
RunError(clearCache, d) ==
    /\ phase \in {"idle", "exited"}
    /\ geoFile' = Older(geoFile, d)
    /\ weatherFile' = Older(weatherFile, d)
    /\ m' = newModel(clearCache)
    /\ cmds' = {}
    /\ msgs' = {}
    /\ phase' = "exited"
    /\ exitCode' = 1
    /\ reqs' = <<>>
    /\ printed' = <<>>
    /\ start' = Snapshot(geoFile', weatherFile')
    /\ last' = NoLast
    /\ fetched' = NoneFetched
    /\ prev' = Ended
    /\ interrupted' = FALSE

Next ==
    \/ \E clearCache \in BOOLEAN, d \in Delays : main(clearCache, d)
    \/ RunCheckCache
    \/ RunFetchPublicIP
    \/ RunFetchGeoInfo
    \/ RunFetchWeatherInfo
    \/ Deliver
    \/ WindowSize
    \/ Key
    \/ SpinnerTick
    \/ ProgressFrame
    \/ Quit
    \/ QuitInWrite
    \/ \E clearCache \in BOOLEAN, d \in Delays : RunError(clearCache, d)

Spec == Init /\ [][Next]_vars

\* Every request issued returns, so every command started finishes; the
\* event loop hands every message posted to Update; tea.Quit and the 80 ms
\* tick end Program.Run.  Nothing obliges the user to run the program.
Fairness ==
    /\ WF_vars(RunCheckCache)
    /\ WF_vars(RunFetchPublicIP)
    /\ WF_vars(RunFetchGeoInfo)
    /\ WF_vars(RunFetchWeatherInfo)
    /\ WF_vars(Deliver)
    /\ WF_vars(Quit)
\* The liveness check takes runs that follow each other at once: the code
\* never reads a file's age, so the delay between runs decides no step.
NextAtOnce ==
    \/ \E clearCache \in BOOLEAN : main(clearCache, 0)
    \/ RunCheckCache
    \/ RunFetchPublicIP
    \/ RunFetchGeoInfo
    \/ RunFetchWeatherInfo
    \/ Deliver
    \/ WindowSize
    \/ Key
    \/ SpinnerTick
    \/ ProgressFrame
    \/ Quit
    \/ QuitInWrite
    \/ \E clearCache \in BOOLEAN : RunError(clearCache, 0)
FairSpec == Init /\ [][NextAtOnce]_vars /\ Fairness

\* The program run on a machine whose temporary directory holds neither
\* cache file: every later content of the two files was written by tstats.
InitFresh == Init /\ geoFile = Absent /\ weatherFile = Absent
SpecFresh == InitFresh /\ [][Next]_vars

\* A second invocation of tstats at work on the same temporary directory
\* while this one runs.  What it does to the two files, one system call at
\* a time: the two os.Remove of checkCacheCmd under --clear
\* (main.go:272-276), the os.WriteFile of getGeoInfo (main.go:361-364) and
\* that of getWeatherInfo (main.go:389-392), with any body its own requests
\* may have returned and any outcome of the write.
OtherInvocation ==
    /\ Running
    /\ \/ /\ geoFile.state # "absent"
          /\ geoFile' = Remove(geoFile)
          /\ weatherFile' = weatherFile
       \/ /\ weatherFile.state # "absent"
          /\ weatherFile' = Remove(weatherFile)
          /\ geoFile' = geoFile
       \/ \E resp \in GeoResponses, outcome \in WriteOutcomes :
            /\ resp.fail = ""
            /\ geoFile' = getGeoInfo("", resp, geoFile, outcome).file
            /\ geoFile' # geoFile
            /\ weatherFile' = weatherFile
       \/ \E c \in Cities, outcome \in WriteOutcomes :
            \E resp \in WeatherResponses(CityLat(c), CityLon(c)) :
                /\ resp.fail = "" /\ resp.status = StatusOK
                /\ weatherFile' =
                      getWeatherInfo(Ptr(UnmarshalGeoInfo(GeoSuccessBody(c)).v),
                                     resp, weatherFile, outcome).file
                /\ weatherFile' # weatherFile
                /\ geoFile' = geoFile
    /\ UNCHANGED <<m, cmds, msgs, phase, exitCode, reqs, printed, start, last,
                   fetched, prev, interrupted>>

\* Two invocations at once on a temporary directory without cache files:
\* one run of this one, its steps from the cache check on interleaved in
\* any order with the file operations of the other.
NextConcurrent ==
    \/ \E clearCache \in BOOLEAN : phase = "idle" /\ main(clearCache, 0)
    \/ RunCheckCache
    \/ RunFetchPublicIP
    \/ RunFetchGeoInfo
    \/ RunFetchWeatherInfo
    \/ Deliver
    \/ WindowSize
    \/ Key
    \/ SpinnerTick
    \/ ProgressFrame
    \/ Quit
    \/ QuitInWrite
    \/ OtherInvocation
SpecConcurrent == InitFresh /\ [][NextConcurrent]_vars

----------------------------------------------------------------------------
(* Vocabulary of the properties. *)

\* An invocation has begun (and may have ended).
Invoked == phase # "idle"
\* The cache check of the invocation has run.
Checked == Invoked /\ last.name # ""
\* The invocation began with a usable geolocation entry: decodable, status
\* "success".
StartGeoValid == start.geo # Nil /\ Deref(start.geo).Status = "success"
\* The invocation began with both entries usable.
StartValid == StartGeoValid /\ start.weatherOK
\* Update took the cache-hit branch.
TookHitBranch ==
    \E i \in 1..Len(printed) : printed[i].label = "Found valid data in cache"
\* A fetch command is waiting to run.
FetchPending ==
    \E c \in cmds :
        c.name \in {"fetchPublicIPCmd", "fetchGeoInfoCmd", "fetchWeatherInfoCmd"}
Requested(kind) == \E i \in 1..Len(reqs) : reqs[i].kind = kind
\* A file holds a usable geolocation entry: decodable, status "success".
GeoUsable(f) ==
    GeoEntry(f) # Nil /\ Deref(GeoEntry(f)).Status = "success"

----------------------------------------------------------------------------
(* C1.  Cache expiry: a run without --clear that begins with both cache    *)
(* entries usable but at least one file written more than the TTL ago gets *)
(* a miss from the cache check and never takes the cache-hit branch.       *)
C1_ExpiredCacheIsMiss ==
    (Invoked /\ ~m.forceRefresh /\ StartValid /\ start.expired) =>
        /\ (last.name = "checkCacheCmd" => ~last.msg.hasCache)
        /\ ~TookHitBranch

C3_WitnessMissing ==
    /\ m.forceRefresh /\ start.geo = Nil /\ ~start.weatherOK
    /\ last.name = "checkCacheCmd" /\ m.index = 1

(* C4.  A failed geolocation is persisted but never usable.  When the     *)
(* geolocation service answers with a document whose status is not         *)
(* "success", getGeoInfo writes the raw bytes to the geolocation cache     *)
(* file (the file holds them unless the write itself failed), the command  *)
(* yields an error, no weather request is issued or pending, and the run   *)
(* is never done.  A run without --clear that finds such a document in the *)
(* geolocation cache file gets a miss, also with a decodable weather file. *)
GeoAnsweredFailure ==
    /\ Invoked /\ last.name = "fetchGeoInfoCmd" /\ last.resp.fail = ""
    /\ ~UnmarshalGeoInfo(last.resp.body).err
    /\ UnmarshalGeoInfo(last.resp.body).v.Status # "success"

C4_FailedGeoNeverUsable ==
    /\ GeoAnsweredFailure =>
        /\ (last.outcome = "ok" => geoFile = Present(last.resp.body))
        /\ last.msg.type = "errorMsg"
        /\ ~Requested("weather") /\ ~FetchPending
        /\ ~m.done /\ m.geoInfo = Nil
        /\ m.err \in {NoErr, last.msg.err}
        /\ (phase = "running" /\ last.msg \notin msgs => m.err = last.msg.err)
    /\ (Invoked /\ ~m.forceRefresh /\ start.geo # Nil
            /\ Deref(start.geo).Status # "success") =>
        /\ (last.name = "checkCacheCmd" =>
                last.msg = cacheCheckResultMsg(FALSE, Nil, Nil))
        /\ ~TookHitBranch

C4_Witness ==
    /\ GeoAnsweredFailure
    /\ phase = "exited" /\ m.err = "geolocation API failed with status"
    /\ geoFile = Present(GeoFailBody)
    /\ WeatherEntry(weatherFile) # Nil

C4_WitnessLaterRun ==
    /\ ~m.forceRefresh /\ start.geo = Ptr(GeoInfo("fail", 0, 0, 0))
    /\ start.weatherOK
    /\ Requested("ip")

C6_ExitCode ==
    phase = "exited" =>
        /\ (m.done => exitCode = 0)
        /\ (m.err # NoErr => exitCode # 0)

\* The error the stage that ran last returned for the response it got, NoErr
\* when it returned none: what getPublicIP, getGeoInfo or getWeatherInfo
\* makes of the response when nothing else goes wrong.
StageError ==
    CASE last.name = "fetchPublicIPCmd" -> getPublicIP(last.resp).err
      [] last.name = "fetchGeoInfoCmd" ->
            getGeoInfo("", last.resp, Absent, "ok").err
      [] last.name = "fetchWeatherInfoCmd" ->
            getWeatherInfo(Ptr(ZeroGeoInfo), last.resp, Absent, "ok").err
      [] OTHER -> NoErr
\* The place of a stage in the pipeline.
StageNo(name) ==
    CASE name = "fetchPublicIPCmd" -> 1
      [] name = "fetchGeoInfoCmd" -> 2
      [] name = "fetchWeatherInfoCmd" -> 3
      [] OTHER -> 0

(* C7.  Errors abort the pipeline.  Once the public-IP, geolocation or     *)
(* weather stage has returned an error, its command yields that error as   *)
(* an errorMsg, no later stage is started (no fetch is pending, no further *)
(* request is issued), done is never set and View never shows a city or a  *)
(* temperature; when Update has handled the message the model's error is   *)
(* that error, View shows it and the program is quitting.  The model's     *)
(* error is never anything but the error of the stage that ran last.       *)
C7_ErrorsAbort ==
    /\ (Invoked /\ StageError # NoErr) =>
        /\ last.msg = errorMsg(StageError)
        /\ ~FetchPending
        /\ Len(reqs) = StageNo(last.name)
        /\ ~m.done /\ m.weatherData = Nil
        /\ View(m).kind \in {"progress", "error"}
        /\ \A msg \in msgs : msg.type \in {"errorMsg", "QuitMsg"}
        /\ m.err \in {NoErr, StageError}
        /\ (phase = "running" /\ last.msg \notin msgs =>
                /\ m.err = StageError
                /\ QuitMsg \in msgs
                /\ View(m) = Screen("error", StageError, 0, 0, 0))
    /\ (m.err # NoErr => m.err = StageError)

C7_Witness ==
    /\ phase = "exited"
    /\ m.err = "open-meteo: request failed"
    /\ m.geoInfo # Nil /\ Len(reqs) = 3
    /\ View(m).kind = "error"

(* C8.  Public-IP resolver failure cases: when the request to the IP-echo  *)
(* service fails at transport level, is answered with a status outside     *)
(* 200..299 or with an empty body, the stage yields an error and no        *)
(* geolocation request is pending or issued; the request is made at most   *)
(* once in a run.                                                          *)
IPStageBad ==
    /\ Invoked /\ last.name = "fetchPublicIPCmd"
    /\ \/ last.resp.fail # ""
       \/ last.resp.status \notin 200..299
       \/ last.resp.body = Text("")

C8_PublicIPFailures ==
    /\ IPStageBad =>
        /\ last.msg.type = "errorMsg"
        /\ ~FetchPending
        /\ ~Requested("geo")
    /\ Cardinality({i \in 1..Len(reqs) : reqs[i].kind = "ip"}) <= 1

(* C9.  A cache write failure is not fatal.  When the write of the         *)
(* geolocation or of the weather cache file fails, the command yields what *)
(* the response alone decides: the decoded record when the body is usable  *)
(* (and then the run goes on, and once done View shows the fetched city    *)
(* and temperature), the body's error otherwise.  An errorMsg always       *)
(* carries the error of the response, never one of the write.              *)
C9_WriteFailureNotFatal ==
    /\ (Invoked /\ last.name = "fetchGeoInfoCmd" /\ last.outcome # "ok") =>
        LET u == UnmarshalGeoInfo(last.resp.body)
        IN  IF ~u.err /\ u.v.Status = "success"
            THEN /\ last.msg = geoInfoFetchedMsg(Ptr(u.v))
                 /\ m.err = NoErr
            ELSE last.msg.type = "errorMsg"
    /\ (Invoked /\ last.name = "fetchWeatherInfoCmd" /\ last.outcome # "ok") =>
        LET u == UnmarshalWeatherResponse(last.resp.body)
        IN  IF ~u.err
            THEN /\ last.msg = weatherFetchedMsg(Ptr(u.v))
                 /\ m.err = NoErr
                 /\ (m.done =>
                        View(m) = Screen("result", NoErr, Deref(m.geoInfo).City,
                                         FormatTemp(last.resp.body.temp), 0))
            ELSE last.msg.type = "errorMsg"
    /\ (Invoked /\ last.msg.type = "errorMsg") =>
        StageError # NoErr /\ last.msg.err = StageError

C9_Witness ==
    /\ phase = "exited" /\ exitCode = 0
    /\ last.name = "fetchWeatherInfoCmd" /\ last.outcome = "write failed"
    /\ geoFile.data.doc = "partial" /\ weatherFile.data.doc = "partial"
    /\ m.done /\ View(m).kind = "result" /\ View(m).city \in Cities

(* C10.  Cache read failures are misses.  In a run without --clear in      *)
(* which a cache file is absent, unreadable or does not decode, the cache  *)
(* check yields a plain miss and no error; when Update has handled it the  *)
(* public-IP fetch is the one command started.  The cache-hit branch is    *)
(* never taken, and an error the model records is the error of a fetch     *)
(* stage, after the public-IP request.                                     *)
StartUndecodable == start.geo = Nil \/ ~start.weatherOK

C10_ReadFailuresAreMisses ==
    (Checked /\ ~m.forceRefresh /\ StartUndecodable) =>
        /\ (last.name = "checkCacheCmd" =>
                /\ last.msg = cacheCheckResultMsg(FALSE, Nil, Nil)
                /\ m.err = NoErr
                /\ (phase = "running" /\ last.msg \notin msgs =>
                        /\ cmds = {fetchPublicIPCmdOf}
                        /\ m.index = 1
                        /\ printed = <<Line("Cache not found or invalid", 0)>>))
        /\ ~TookHitBranch
        /\ (m.err # NoErr => Requested("ip") /\ m.err = StageError)

C10_Witness ==
    /\ ~m.forceRefresh
    /\ geoFile = Unreadable /\ start.geo = Nil
    /\ last.name = "fetchPublicIPCmd" /\ reqs = <<IPRequest>>
    /\ m.err = NoErr

(* C11.  No cross-matched result.  Starting from a temporary directory     *)
(* without cache files, after any sequence of runs: a run that is done     *)
(* presents a weather record fetched for the latitude and longitude of the *)
(* geolocation record it presents, and whenever both cache files hold      *)
(* usable entries the weather entry was fetched for the coordinates of the *)
(* geolocation entry.                                                      *)
FetchedFor(geoInfo, weatherData) ==
    /\ geoInfo # Nil /\ weatherData # Nil
    /\ Deref(weatherData).Latitude = Deref(geoInfo).Lat
    /\ Deref(weatherData).Longitude = Deref(geoInfo).Lon

C11_NoCrossMatch ==
    /\ (m.done => FetchedFor(m.geoInfo, m.weatherData))
    /\ (GeoUsable(geoFile) /\ WeatherEntry(weatherFile) # Nil =>
            FetchedFor(GeoEntry(geoFile), WeatherEntry(weatherFile)))

(* C12, as claimed.  Round trip across runs: a run that begins with no     *)
(* cache files and is done after its three requests leaves both cache      *)
(* files holding the bytes it received and shows the fetched city and      *)
(* temperature; the run without --clear that follows it within the TTL     *)
(* gets a hit whose records equal the fetched ones in all fields.          *)
FreshDone == start.none /\ m.done /\ Len(reqs) = 3
FollowsFresh == Checked /\ ~m.forceRefresh /\ prev.fresh /\ ~start.expired

C12_RoundTrip ==
    /\ FreshDone =>
        /\ geoFile = Present(fetched.geo)
        /\ weatherFile = Present(fetched.weather)
        /\ View(m) = Screen("result", NoErr, fetched.geo.city,
                            FormatTemp(fetched.weather.temp), 0)
    /\ FollowsFresh =>
        /\ (last.name = "checkCacheCmd" =>
                last.msg = cacheCheckResultMsg(TRUE, prev.geoInfo,
                                               prev.weatherData))
        /\ (m.done => m.geoInfo = prev.geoInfo
                        /\ m.weatherData = prev.weatherData)

(* C12, amended.  The same, for a first run whose two cache writes both    *)
(* succeeded: the files hold the bytes received, the run shows the fetched *)
(* city and temperature, and the following run without --clear within the  *)
(* TTL issues no request, gets a hit carrying records equal in all fields  *)
(* to the fetched ones and, once done, shows the same city and             *)
(* temperature.                                                            *)
C12_RoundTripWhenWritten ==
    /\ (FreshDone /\ fetched.geoWrite = "ok" /\ fetched.weatherWrite = "ok") =>
        /\ geoFile = Present(fetched.geo)
        /\ weatherFile = Present(fetched.weather)
        /\ m.geoInfo = Ptr(UnmarshalGeoInfo(fetched.geo).v)
        /\ m.weatherData = Ptr(UnmarshalWeatherResponse(fetched.weather).v)
        /\ View(m) = Screen("result", NoErr, fetched.geo.city,
                            FormatTemp(fetched.weather.temp), 0)
    /\ (FollowsFresh /\ prev.wrote) =>
        /\ reqs = <<>> /\ ~FetchPending
        /\ (last.name = "checkCacheCmd" =>
                last.msg = cacheCheckResultMsg(TRUE, prev.geoInfo,
                                               prev.weatherData))
        /\ (m.done =>
                /\ m.geoInfo = prev.geoInfo
                /\ m.weatherData = prev.weatherData
                /\ View(m) = Screen("result", NoErr, Deref(prev.geoInfo).City,
                        FormatTemp(Deref(prev.weatherData).Temperature2m), 0))

C12_Witness ==
    /\ FollowsFresh /\ prev.wrote
    /\ phase = "exited" /\ m.done /\ reqs = <<>>
    /\ m.geoInfo = prev.geoInfo /\ Deref(m.geoInfo).City \in Cities
    /\ Deref(m.weatherData).Temperature2m \in Temps

\* What a file holds, whatever its age.
Content(f) == [state |-> f.state, data |-> f.data]
\* Steps: a file gets new content, a file goes away, a stage issues its
\* request, the cache check runs.
Written(f, g) == Content(g) # Content(f) /\ g.state = "present"
Removed(f, g) == f.state # "absent" /\ g.state = "absent"
StageStep(kind) ==
    Len(reqs') = Len(reqs) + 1 /\ reqs'[Len(reqs')].kind = kind
CheckStep == last.name = "" /\ last'.name = "checkCacheCmd"

(* C13, as claimed.  Cache file lifecycle: a cache file gets new content   *)
(* only in the step of the stage of its own kind, and only when that stage *)
(* resolves successfully (it yields geoInfoFetchedMsg, weatherFetchedMsg); *)
(* a file goes away only in the cache check of a run with --clear.         *)
C13_Lifecycle ==
    [][/\ Written(geoFile, geoFile') =>
            /\ StageStep("geo")
            /\ last'.name = "fetchGeoInfoCmd"
            /\ last'.msg.type = "geoInfoFetchedMsg"
       /\ Written(weatherFile, weatherFile') =>
            /\ StageStep("weather")
            /\ last'.name = "fetchWeatherInfoCmd"
            /\ last'.msg.type = "weatherFetchedMsg"
       /\ (Removed(geoFile, geoFile') \/ Removed(weatherFile, weatherFile')) =>
            m.forceRefresh /\ CheckStep]_vars

(* C13, amended.  A cache file gets new content only in the step of the    *)
(* stage of its own kind, once that stage has received a response body     *)
(* (for the weather, with status 200), whether or not the body is then     *)
(* accepted: the file then holds that body, or is cut short when the write *)
(* fails or the process exits inside it.  Hence a run that takes the       *)
(* cache-hit branch, or that has issued no geolocation request, writes no  *)
(* file.  A file goes away only in the cache check of a run with --clear.  *)
C13_LifecycleOfBodies ==
    [][/\ Written(geoFile, geoFile') =>
            /\ StageStep("geo") /\ ~TookHitBranch'
            /\ \/ /\ last'.name = "fetchGeoInfoCmd" /\ last'.resp.fail = ""
                  /\ geoFile' = WriteFile(geoFile, last'.resp.body,
                                          last'.outcome).file
               \/ /\ phase' = "exited" /\ last' = last
                  /\ geoFile' = Present(Truncated(NoBytes))
       /\ Written(weatherFile, weatherFile') =>
            /\ StageStep("weather") /\ ~TookHitBranch'
            /\ \/ /\ last'.name = "fetchWeatherInfoCmd"
                  /\ last'.resp.fail = "" /\ last'.resp.status = StatusOK
                  /\ weatherFile' = WriteFile(weatherFile, last'.resp.body,
                                              last'.outcome).file
               \/ /\ phase' = "exited" /\ last' = last
                  /\ weatherFile' = Present(Truncated(NoBytes))
       /\ (Removed(geoFile, geoFile') \/ Removed(weatherFile, weatherFile')) =>
            m.forceRefresh /\ CheckStep]_vars

C13_Witness ==
    /\ m.forceRefresh /\ StartValid
    /\ last.name = "fetchGeoInfoCmd" /\ last.msg.type = "errorMsg"
    /\ geoFile = Present(Garbage) /\ weatherFile = Absent

\* The commands of the pipeline's stages, the messages they yield, and the
\* kinds of request in the order of the pipeline.
StageCmds ==
    {c \in cmds : c.name \in {"checkCacheCmd", "fetchPublicIPCmd",
                               "fetchGeoInfoCmd", "fetchWeatherInfoCmd"}}
StageMsgs ==
    {msg \in msgs : msg.type \in {"cacheCheckResultMsg", "ipFetchedMsg",
                                   "geoInfoFetchedMsg", "weatherFetchedMsg",
                                   "errorMsg"}}
StageKinds == <<"ip", "geo", "weather">>

(* C14.  Stage ordering.  The requests of a run are issued in the order    *)
(* public IP, geolocation, weather, each at most once, after one cache     *)
(* check.  At most one stage is outstanding: one command pending or one    *)
(* result not yet handled.  A stage's command is pending only when the     *)
(* stage before it ran last and its result has been handled by Update.     *)
(* The geolocation request carries the address the public-IP stage         *)
(* delivered, the weather request the coordinates of the record the        *)
(* geolocation stage delivered.                                            *)
C14_StageOrdering ==
    /\ Len(reqs) <= 3
    /\ \A i \in 1..Len(reqs) : reqs[i].kind = StageKinds[i]
    /\ (reqs # <<>> => Checked)
    /\ Cardinality(StageCmds) + Cardinality(StageMsgs) <= 1
    /\ \A c \in cmds :
        /\ c \in StageCmds
        /\ StageMsgs = {}
        /\ CASE c.name = "checkCacheCmd" -> last = NoLast /\ reqs = <<>>
             [] c.name = "fetchPublicIPCmd" ->
                    /\ last.name = "checkCacheCmd" /\ reqs = <<>>
                    /\ last.msg = cacheCheckResultMsg(FALSE, Nil, Nil)
             [] c.name = "fetchGeoInfoCmd" ->
                    /\ last.name = "fetchPublicIPCmd" /\ Len(reqs) = 1
                    /\ last.msg = ipFetchedMsg(c.ip)
             [] OTHER ->
                    /\ last.name = "fetchGeoInfoCmd" /\ Len(reqs) = 2
                    /\ last.msg = geoInfoFetchedMsg(c.geoInfo)
    /\ (Len(reqs) >= 2 => reqs[2] = GeoRequest(fetched.ip))
    /\ (Len(reqs) = 3 =>
            reqs[3] = WeatherRequest(UnmarshalGeoInfo(fetched.geo).v))

C14_Witness ==
    /\ Len(reqs) = 3 /\ m.done
    /\ fetched.ip = "203.0.113.5" /\ reqs[2].ip = "203.0.113.5"
    /\ reqs[3].lat = CityLat(NumCities)

\* The pipeline has ended: Done or Failed.
Done == m.done
Failed == m.err # NoErr

(* C15, as claimed.  Termination: when every request returns, every run    *)
(* ends Done or Failed and then quits; and Done and Failed are terminal:   *)
(* once done is set or an error is recorded no stage command is pending    *)
(* and no further request is issued.                                       *)
C15_Terminates ==
    /\ Running ~> (phase = "exited" /\ (Done \/ Failed))
    /\ [](Done \/ Failed => StageCmds = {})
    /\ [][Running /\ (Done \/ Failed) => reqs' = reqs]_vars

(* C15, amended.  When every request returns, every run quits, and it      *)
(* quits Done or Failed unless a quit key (q, esc, ctrl+c) ended it first; *)
(* Done and Failed are terminal as claimed.                                *)
C15_TerminatesUnlessInterrupted ==
    /\ Running ~> (phase = "exited" /\ (Done \/ Failed \/ interrupted))
    /\ [](phase = "exited" /\ exitCode = 0 => Done \/ Failed \/ interrupted)
    /\ [](Done \/ Failed => StageCmds = {})
    /\ [][Running /\ (Done \/ Failed) => reqs' = reqs]_vars

C15_Witness ==
    /\ phase = "exited" /\ interrupted
    /\ ~Done /\ ~Failed
    /\ Len(reqs) = 2 /\ m.geoInfo # Nil

\* Stages that have run, and pipeline transitions Update has made: one for
\* each stage result it has handled.
StagesRun == IF last.name = "" THEN 0 ELSE StageNo(last.name) + 1
Transitions == StagesRun - Cardinality(StageMsgs)
\* The lines of a run that misses the cache and fetches city, in order.
MissLines(city) ==
    <<Line("Cache not found or invalid", 0), Line("Public IP fetched", 0),
      Line("Geolocation for %s fetched and cached", city),
      Line("Weather forecast fetched and cached", 0)>>
ResultShown ==
    /\ m.geoInfo # Nil /\ m.weatherData # Nil
    /\ View(m) = Screen("result", NoErr, Deref(m.geoInfo).City,
                        FormatTemp(Deref(m.weatherData).Temperature2m), 0)

(* C16, as claimed.  One progress event per transition: while a run is on, *)
(* the lines printed are as many as the transitions made, the transition   *)
(* to Failed included; and once done View shows the city and the           *)
(* temperature.                                                            *)
C16_OneEventPerTransition ==
    /\ (Running => Len(printed) = Transitions)
    /\ (Done => ResultShown)

(* C16, amended.  Each of the transitions cache hit, cache miss, IP        *)
(* fetched, geolocation fetched and weather fetched prints exactly one     *)
(* line, with the label of that transition; the transition to Failed       *)
(* prints none, and View shows the error instead.  Once done View shows    *)
(* the city and the temperature.                                           *)
C16_OneLinePerSuccess ==
    /\ Running =>
        /\ Len(printed) = Transitions - (IF Failed THEN 1 ELSE 0)
        /\ \/ printed = <<Line("Found valid data in cache", 0)>> /\ Done
           \/ /\ ~TookHitBranch
              /\ \A i \in 1..Len(printed) :
                    printed[i] = MissLines(IF m.geoInfo = Nil THEN 0
                                          ELSE Deref(m.geoInfo).City)[i]
    /\ (Failed => View(m) = Screen("error", m.err, 0, 0, 0)
                  /\ m.err = StageError)
    /\ (Done /\ ~Failed => ResultShown)

C16_Witness ==
    /\ Running /\ Failed
    /\ Len(printed) = 2 /\ Transitions = 3
    /\ View(m).kind = "error"

(* C17.  No partial cache file on termination: when the user ends a run    *)
(* with a quit key, the step in which the process exits leaves each cache  *)
(* file as it was or with a complete document, never with one cut short.   *)
C17_NoPartialFile ==
    [][(Running /\ interrupted /\ phase' = "exited") =>
            /\ (Content(geoFile') # Content(geoFile) =>
                    geoFile'.data.doc # "partial")
            /\ (Content(weatherFile') # Content(weatherFile) =>
                    weatherFile'.data.doc # "partial")]_vars

(* C18.  Result present when done: in every reachable state, done implies  *)
(* that geoInfo and weatherData are both non-nil and no error is set, so   *)
(* View takes its done branch and renders the result without touching a    *)
(* nil record; on the cache-hit path and on the full-fetch path alike,     *)
(* whatever window-size, key, spinner and frame messages came in between.  *)
C18_ResultPresentWhenDone ==
    m.done =>
        /\ m.geoInfo # Nil /\ m.weatherData # Nil
        /\ m.err = NoErr
        /\ View(m).kind = "result"

\* Done on the full-fetch path, after a window-size message and with a key
\* press that did not quit.
C18_Witness ==
    /\ Running /\ m.done /\ ~TookHitBranch
    /\ Len(reqs) = 3 /\ m.width # 0 /\ ~interrupted
    /\ View(m).kind = "result"
\* Done on the cache-hit path.
C18_WitnessHit ==
    /\ Running /\ m.done /\ TookHitBranch
    /\ Len(reqs) = 0 /\ m.width # 0
    /\ View(m).kind = "result"

(* C19.  Step index in range: in every reachable state with done = false   *)
(* and err = nil the index is within 0..len(steps)-1, so View's            *)
(* steps[index] is in bounds and View shows step index+1; while the run is *)
(* on, the index is the number of stage results Update has handled; and    *)
(* the index is len(steps) only in states where done is set, which on the  *)
(* full-fetch path it is from the transition that sets done on.            *)
C19_IndexInRange ==
    /\ m.index \in 0..NumSteps
    /\ (~m.done /\ m.err = NoErr) =>
            /\ m.index \in 0..(NumSteps - 1)
            /\ View(m) = Screen("progress", NoErr, 0, 0, m.index + 1)
            /\ (Running => m.index = Transitions)
    /\ (m.index = NumSteps => m.done)
    /\ (m.done => m.index = IF TookHitBranch THEN 0 ELSE NumSteps)

\* The last step in progress: three stages handled, the weather stage not.
C19_Witness ==
    /\ Running /\ ~m.done /\ m.err = NoErr
    /\ m.index = NumSteps - 1 /\ Transitions = NumSteps - 1
    /\ View(m).step = NumSteps

(* C20.  Isolation of a run's own result under concurrent invocations:     *)
(* with the file operations of a second invocation interleaved in any      *)
(* order, a run that missed the cache and is done holds, and View shows,   *)
(* the geolocation record and the weather record decoded from the bodies   *)
(* its own requests returned, whatever the cache files hold by then.       *)
OwnResult ==
    /\ m.geoInfo = Ptr(UnmarshalGeoInfo(fetched.geo).v)
    /\ m.weatherData = Ptr(UnmarshalWeatherResponse(fetched.weather).v)
    /\ View(m) = Screen("result", NoErr, fetched.geo.city,
                        FormatTemp(fetched.weather.temp), 0)

C20_OwnResultUnderConcurrency ==
    (m.done /\ ~TookHitBranch) => Len(reqs) = 3 /\ OwnResult

\* Done on the miss path, both cache writes having succeeded, while both
\* files hold usable entries of the other invocation: another city, and
\* another temperature.
C20_Witness ==
    /\ Running /\ m.done /\ ~TookHitBranch
    /\ fetched.geoWrite = "ok" /\ fetched.weatherWrite = "ok"
    /\ GeoUsable(geoFile) /\ WeatherEntry(weatherFile) # Nil
    /\ Deref(GeoEntry(geoFile)).City # Deref(m.geoInfo).City
    /\ Deref(WeatherEntry(weatherFile)).Temperature2m
            # Deref(m.weatherData).Temperature2m
    /\ OwnResult

====
